---------------------------- MODULE Spec2Model ----------------------------
(***************************************************************************)
(* Model of src/app.py: the Pipedrive webhook handler (POST /webhook with  *)
(* its deferred note-writing task) and the daily sweep (POST /daily-sweep).*)
(*                                                                         *)
(* JSON values are tagged records: null, int, str, a "%Y-%m-%d" date       *)
(* string, array and object.  A Python dict is an object whose field o is  *)
(* a function from keys to JSON values; an absent key is a key that is not *)
(* in its domain.  Python's None is JNull.                                 *)
(***************************************************************************)
EXTENDS Integers, Sequences, FiniteSets, TLC

VARIABLES
    body,        \* the webhook request body: [valid, json]
    wh_pc,       \* "idle", "responded" (task queued), "done", "raised"
    response,    \* what POST /webhook returned to the platform
    background,  \* FastAPI BackgroundTasks: the queued _write_note_bg closures
    stagesData,  \* platform state: the stage catalog served by GET /stages
    listing,     \* platform state: the open deals served by GET /deals
    sw_pc,       \* "start", "listing", "deals", "done", "raised"
    stage_kunde_kontaktet, \* daily_sweep local
    stage_tilbud_sendt,    \* daily_sweep local
    deals,       \* daily_sweep local: the deals collected so far
    start,       \* daily_sweep local: the next page's offset
    fetches,     \* the start offsets of the GET /deals calls issued
    idx,         \* number of deals whose loop body has been entered
    processed,   \* daily_sweep local: the two counters
    raised,      \* where the sweep raised: [at, deal, action]
    sw_result,   \* what POST /daily-sweep returned
    calls        \* person lookups, emails and POSTs issued, in order

wh_vars == <<body, wh_pc, response, background>>
sw_vars == <<stagesData, listing, sw_pc, stage_kunde_kontaktet, stage_tilbud_sendt,
             deals, start, fetches, idx, processed, raised, sw_result>>
vars == <<wh_vars, sw_vars, calls>>

-----------------------------------------------------------------------------
(* JSON / Python values *)

JNull == [t |-> "null"]
JInt(n) == [t |-> "int", i |-> n]
JStr(s) == [t |-> "str", s |-> s]
JDate(y, m, d) == [t |-> "date", y |-> y, m |-> m, d |-> d]
JArr(a) == [t |-> "arr", a |-> a]
JObj(f) == [t |-> "obj", o |-> f]
EmptyObj == JObj(<<>>)

IsObj(v) == v.t = "obj"

\* dict.get(k, default)
GetD(v, k, default) == IF k \in DOMAIN v.o THEN v.o[k] ELSE default

\* dict.get(k)
Get(v, k) == GetD(v, k, JNull)

\* Python truth value
Truthy(v) ==
    CASE v.t = "null" -> FALSE
      [] v.t = "int"  -> v.i # 0
      [] v.t = "str"  -> v.s # ""
      [] v.t = "date" -> TRUE
      [] v.t = "arr"  -> v.a # <<>>
      [] v.t = "obj"  -> DOMAIN v.o # {}

\* a or b
Or(a, b) == IF Truthy(a) THEN a ELSE b

\* str(v) as an f-string renders it
PyStr(v) ==
    CASE v.t = "null" -> "None"
      [] v.t = "int"  -> ToString(v.i)
      [] v.t = "str"  -> v.s
      [] OTHER        -> "<object>"

\* The strings of the model that int() accepts: decimal literals.
IntLiterals == [s \in {"5", "6"} |-> IF s = "5" THEN 5 ELSE 6]

\* int(v): [ok, i]; ok = FALSE is ValueError / TypeError
PyInt(v) ==
    CASE v.t = "int" -> [ok |-> TRUE, i |-> v.i]
      [] v.t = "str" /\ v.s \in DOMAIN IntLiterals -> [ok |-> TRUE, i |-> IntLiterals[v.s]]
      [] OTHER -> [ok |-> FALSE, i |-> 0]

-----------------------------------------------------------------------------
(* Calendar: date.toordinal() differences and timedelta additions *)

IsLeap(y) == (y % 4 = 0) /\ ((y % 100 # 0) \/ (y % 400 = 0))

DaysInMonth(y, m) ==
    IF m = 2 THEN (IF IsLeap(y) THEN 29 ELSE 28)
    ELSE IF m \in {4, 6, 9, 11} THEN 30 ELSE 31

RECURSIVE DaysBeforeMonth(_, _)
DaysBeforeMonth(y, m) ==
    IF m = 1 THEN 0 ELSE DaysBeforeMonth(y, m - 1) + DaysInMonth(y, m - 1)

DaysBeforeYear(y) ==
    LET p == y - 1 IN p * 365 + (p \div 4) - (p \div 100) + (p \div 400)

ToOrdinal(dt) == DaysBeforeYear(dt.y) + DaysBeforeMonth(dt.y, dt.m) + dt.d

NextDay(dt) ==
    IF dt.d < DaysInMonth(dt.y, dt.m) THEN JDate(dt.y, dt.m, dt.d + 1)
    ELSE IF dt.m < 12 THEN JDate(dt.y, dt.m + 1, 1)
    ELSE JDate(dt.y + 1, 1, 1)

RECURSIVE AddDays(_, _)
AddDays(dt, n) == IF n = 0 THEN dt ELSE AddDays(NextDay(dt), n - 1)

\* The day of the run: dt.date.today() and the date of dt.datetime.utcnow()
Today == JDate(2026, 11, 6)

\* dt.datetime.utcnow().isoformat() at the time of the run
UtcNowIso == "2026-11-06T11:00:00"

-----------------------------------------------------------------------------
(* add_note *)

\* _extract_id(val)
ExtractId(val) ==
    IF IsObj(val) THEN Or(Get(val, "value"), Get(val, "id")) ELSE val

\* Lines 43-47: the deal link, when int() accepts the identifier
LinkDeal(p, deal_id) ==
    IF deal_id # JNull /\ PyInt(ExtractId(deal_id)).ok
    THEN p @@ [deal_id |-> JInt(PyInt(ExtractId(deal_id)).i)]
    ELSE p

\* Lines 49-53
LinkPerson(p, person_id) ==
    IF "deal_id" \notin DOMAIN p /\ person_id # JNull /\ PyInt(ExtractId(person_id)).ok
    THEN p @@ [person_id |-> JInt(PyInt(ExtractId(person_id)).i)]
    ELSE p

\* Lines 55-59
LinkOrg(p, org_id) ==
    IF {"deal_id", "person_id"} \cap DOMAIN p = {} /\ org_id # JNull
       /\ PyInt(ExtractId(org_id)).ok
    THEN p @@ [org_id |-> JInt(PyInt(ExtractId(org_id)).i)]
    ELSE p

\* Lines 62-63
LinkLead(p, lead_id) ==
    IF {"deal_id", "person_id", "org_id"} \cap DOMAIN p = {} /\ lead_id # JNull
    THEN p @@ [lead_id |-> JStr(PyStr(ExtractId(lead_id)))]
    ELSE p

\* Lines 65-69: raised is the RuntimeError of a note with no link,
\* otherwise payload is handed to pd_post("/notes", payload)
NoteOutcome(p) ==
    [raised |-> {"deal_id", "person_id", "org_id", "lead_id"} \cap DOMAIN p = {},
     payload |-> p]

\* add_note(content, deal_id, person_id, org_id, lead_id) up to its pd_post
AddNote(content, deal_id, person_id, org_id, lead_id) ==
    NoteOutcome(LinkLead(LinkOrg(LinkPerson(LinkDeal([content |-> content], deal_id),
                                            person_id), org_id), lead_id))

-----------------------------------------------------------------------------
(* POST /webhook *)

\* v.get(k) where v may be anything: the value, or JNull when the call raises
\* (the raise itself is accounted for in WebhookFields.raises)
SafeGet(v, k) == IF IsObj(v) THEN Get(v, k) ELSE JNull

\* Lines 112-122: the fields the handler extracts from the parsed payload.
\* raises is the AttributeError of a .get on a value that is not a dict.
WebhookFields(payload) ==
    LET meta == Or(SafeGet(payload, "meta"), EmptyObj)
        data == IF IsObj(payload) THEN GetD(payload, "data", EmptyObj) ELSE JNull
        curTop == SafeGet(payload, "current")
        prevTop == SafeGet(payload, "previous")
        current == Or(Or(curTop, SafeGet(data, "current")), EmptyObj)
        previous == Or(Or(prevTop, SafeGet(data, "previous")), EmptyObj)
    IN  [raises    |-> \/ ~IsObj(payload)
                       \/ ~IsObj(meta)
                       \/ (~Truthy(curTop) /\ ~IsObj(data))
                       \/ (~Truthy(prevTop) /\ ~IsObj(data))
                       \/ ~IsObj(current)
                       \/ ~IsObj(previous),
         deal_id   |-> Or(SafeGet(current, "id"), SafeGet(meta, "id")),
         stage_cur |-> SafeGet(current, "stage_id"),
         stage_prev |-> SafeGet(previous, "stage_id")]

\* Line 130: the note text (the arrow of the source written in ASCII)
WebhookMsg(stage_prev, stage_cur) ==
    "Webhook: stage " \o PyStr(stage_prev) \o " -> " \o PyStr(stage_cur)
        \o " @ " \o UtcNowIso \o "Z"

\* Line 132: the call the deferred task makes, add_note(deal_id, msg)
WebhookNoteCall(deal_id, msg) == AddNote(deal_id, JStr(msg), JNull, JNull, JNull)

\* A record of the call log: the operation, the deal (its position in the
\* listing) and follow-up it serves, what was sent and what came back
Call(op, deal, action, arg, res) ==
    [op |-> op, deal |-> deal, action |-> action, arg |-> arg, res |-> res]

AckOk == [ok |-> TRUE, error |-> ""]
AckInvalid == [ok |-> FALSE, error |-> "invalid json"]
NoResponse == [ok |-> FALSE, error |-> "(none yet)"]
Http500 == [ok |-> FALSE, error |-> "(unhandled exception)"]

\* Lines 105-109: request.json() fails
WebhookInvalidJson ==
    /\ wh_pc = "idle"
    /\ ~body.valid
    /\ response' = AckInvalid
    /\ wh_pc' = "done"
    /\ UNCHANGED <<body, background, sw_vars, calls>>

\* Lines 112-122 raise: the exception leaves the handler, no task is queued
WebhookRaises ==
    /\ wh_pc = "idle"
    /\ body.valid
    /\ WebhookFields(body.json).raises
    /\ response' = Http500
    /\ wh_pc' = "raised"
    /\ UNCHANGED <<body, background, sw_vars, calls>>

\* Lines 112-137: the task is queued and the acknowledgment returned
WebhookAck ==
    /\ wh_pc = "idle"
    /\ body.valid
    /\ LET f == WebhookFields(body.json) IN
        /\ ~f.raises
        /\ background' = Append(background,
               [deal_id |-> f.deal_id, stage_prev |-> f.stage_prev, stage_cur |-> f.stage_cur])
    /\ response' = AckOk
    /\ wh_pc' = "responded"
    /\ UNCHANGED <<body, sw_vars, calls>>

\* Lines 127-134: _write_note_bg, run after the response was sent.
\* When add_note gets as far as pd_post the POST is issued; an HTTP error
\* there is caught and printed just as add_note's RuntimeError is.
WriteNoteBg ==
    /\ wh_pc = "responded"
    /\ background # <<>>
    /\ LET task == Head(background)
           r == WebhookNoteCall(task.deal_id, WebhookMsg(task.stage_prev, task.stage_cur))
       IN  calls' = IF Truthy(task.deal_id) /\ ~r.raised
                    THEN Append(calls, Call("POST /notes", 0, "webhook", JObj(r.payload), JNull))
                    ELSE calls
    /\ background' = Tail(background)
    /\ wh_pc' = "done"
    /\ UNCHANGED <<body, response, sw_vars>>

\* The request bodies: flat and nested shapes, every field absent, null or set
Absent == [t |-> "absent"]

Field(k, v) == IF v = Absent THEN <<>> ELSE (k :> v)

MetaValues == {Absent, JNull, EmptyObj, JObj([id |-> JInt(5)])}
CurrentValues == {Absent, JNull, EmptyObj,
                  JObj([id |-> JInt(5), stage_id |-> JInt(2)]),
                  JObj([stage_id |-> JInt(2)])}
PreviousValues == {Absent, JNull, JObj([stage_id |-> JInt(1)])}
DataValues == {Absent, JNull, EmptyObj,
               JObj([current |-> JObj([id |-> JInt(6), stage_id |-> JInt(3)]),
                     previous |-> JObj([stage_id |-> JInt(2)])])}

Payloads ==
    { JObj(Field("meta", m) @@ Field("current", c) @@ Field("previous", p) @@ Field("data", d))
        : m \in MetaValues, c \in CurrentValues, p \in PreviousValues, d \in DataValues }

Bodies == {[valid |-> FALSE, json |-> JNull]} \cup {[valid |-> TRUE, json |-> p] : p \in Payloads}

-----------------------------------------------------------------------------
(* POST /daily-sweep: helpers *)

\* Line 143-145: {s["name"]: s["id"] for s in stages}.get(name); a later
\* stage of the same name overrides an earlier one, an absent name gives None
StageId(stages, name) ==
    LET hits == {i \in 1..Len(stages) : stages[i].o.name = JStr(name)}
    IN  IF hits = {} THEN JNull
        ELSE stages[CHOOSE i \in hits : \A j \in hits : j <= i].o.id

\* Line 150: the listing parameters, line 152: the size that counts as a
\* full page, line 154: the step of the offset
Limit == 500
FullPage == 500
StartStep == 500

\* The platform's GET /deals?start=&limit= : a slice of the open deals
ServePage(all, from, limit) ==
    SubSeq(all, from + 1, IF from + limit < Len(all) THEN from + limit ELSE Len(all))

\* Line 152: if len(chunk) < 500: break
PageIsShortLoose(chunk) == Len(chunk) <= FullPage

PageIsShort(chunk) == Len(chunk) < FullPage

\* Line 159: d.get("person_id", {}).get("value"); raises is the
\* AttributeError when the person_id field is not a dict
PersonIdOf(d) ==
    LET pf == GetD(d, "person_id", EmptyObj)
    IN  [raises |-> ~IsObj(pf), value |-> SafeGet(pf, "value")]

\* Lines 87-88: the email of a GET /persons/{id} response
PersonEmail(resp) ==
    LET person == Or(Get(resp, "data"), EmptyObj)
    IN  IF Truthy(Get(person, "email")) THEN Get(person, "email").a[1].o.value ELSE JNull

\* Line 93: the age of a deal with no last activity date
NoActivityAge == 999

\* Lines 90-95: deal_last_activity_age_days
DealLastActivityAgeDays(d) ==
    LET lad == Get(d, "last_activity_date")
    IN  IF ~Truthy(lad) THEN NoActivityAge ELSE ToOrdinal(Today) - ToOrdinal(lad)

\* Lines 78-81: send_followup_email, a placeholder that prints and reports success
SendFollowupEmail(to_email, subject, text) == TRUE

\* Lines 72-76: the payload add_activity posts to /activities
AddActivity(deal_id, subject, due_in_days, type_) ==
    [subject |-> JStr(subject), type |-> JStr(type_), deal_id |-> deal_id,
     due_date |-> AddDays(Today, due_in_days)]

\* Lines 171, 184: add_note(d["id"], "Auto-oppfolging sendt (...)")
SweepNoteCall(id, text) == AddNote(id, JStr(text), JNull, JNull, JNull)

\* Lines 163, 176: the staleness thresholds; lines 172, 185: due_in_days
KKMinDays == 3
TSMinDays == 7
KKDueDays == 3
TSDueDays == 4

\* The two follow-ups of the loop body, in the order of the code (their
\* texts in ASCII)
KKAction(stageId) ==
    [key |-> "kk", counter |-> "kk_followups", stage |-> stageId, min |-> KKMinDays,
     subject |-> "Skal vi booke gratis befaring? - Softvask Norge",
     note |-> "Auto-oppfolging sendt (Kunde kontaktet).", due |-> KKDueDays]

TSAction(stageId) ==
    [key |-> "ts", counter |-> "ts_followups", stage |-> stageId, min |-> TSMinDays,
     subject |-> "Sporsmal til tilbudet vart? - Softvask Norge",
     note |-> "Auto-oppfolging sendt (Tilbud sendt).", due |-> TSDueDays]

ReminderSubject == "Ring kunden hvis ingen svar"

\* Lines 163, 176: if sid == stage and deal_last_activity_age_days(d) >= min and email
EligibleStrict(sid, stageId, age, minDays, email) ==
    sid = stageId /\ age > minDays /\ Truthy(email)

Eligible(sid, stageId, age, minDays, email) ==
    sid = stageId /\ age >= minDays /\ Truthy(email)

NoRaise == [at |-> "none", deal |-> 0, action |-> "-"]
Raise(at, deal, action) == [at |-> at, deal |-> deal, action |-> action]

\* Lines 172, 185: add_activity; env.actOk = FALSE is pd_post raising
PostReminder(st, i, d, a, env) ==
    LET c == Append(st.calls, Call("POST /activities", i, a.key,
                                   JObj(AddActivity(d.o.id, ReminderSubject, a.due, "call")),
                                   JNull))
    IN  IF env.actOk
        THEN [st EXCEPT !.calls = c, !.sent = TRUE]
        ELSE [st EXCEPT !.calls = c, !.raised = Raise("activity", i, a.key)]

\* Lines 171, 184: add_note, n its outcome up to pd_post; env.noteOk = FALSE
\* is pd_post raising
PostNote(st, i, d, a, env, n) ==
    IF n.raised THEN [st EXCEPT !.raised = Raise("note", i, a.key)]
    ELSE IF ~env.noteOk
    THEN [st EXCEPT !.calls = Append(@, Call("POST /notes", i, a.key, JObj(n.payload), JNull)),
                    !.raised = Raise("note", i, a.key)]
    ELSE PostReminder([st EXCEPT !.calls = Append(@, Call("POST /notes", i, a.key,
                                                           JObj(n.payload), JNull))],
                      i, d, a, env)

\* Lines 164-172 (177-185): the email, and after a reported success the note
\* and the reminder.  st is [calls, processed, raised, sent].
SendAndRecord(st, i, d, email, a, env) ==
    IF SendFollowupEmail(email, a.subject, "")
    THEN PostNote([st EXCEPT !.calls = Append(@, Call("EMAIL", i, a.key, email, JNull))],
                  i, d, a, env, SweepNoteCall(d.o.id, a.note))
    ELSE [st EXCEPT !.calls = Append(@, Call("EMAIL", i, a.key, email, JNull)), !.sent = FALSE]

\* Lines 173, 186: processed[...] += 1, inside "if sent:"
CountIfSent(r, a) ==
    IF r.raised = NoRaise /\ r.sent
    THEN [r EXCEPT !.processed[a.counter] = @ + 1]
    ELSE r

CountUnlessRaised(r, a) ==
    IF r.raised = NoRaise
    THEN [r EXCEPT !.processed[a.counter] = @ + 1]
    ELSE r

\* Lines 163-173 (176-186) with the counter's increment dedented to the
\* level of the loop body
FollowupCountsAlways(st, i, d, email, a, env) ==
    IF st.raised # NoRaise THEN st
    ELSE CountUnlessRaised(
             IF Eligible(Get(d, "stage_id"), a.stage, DealLastActivityAgeDays(d), a.min, email)
             THEN SendAndRecord([st EXCEPT !.sent = FALSE], i, d, email, a, env)
             ELSE st, a)

\* Lines 163-173 (176-186): one follow-up of the loop body
Followup(st, i, d, email, a, env) ==
    IF st.raised # NoRaise THEN st
    ELSE IF ~Eligible(Get(d, "stage_id"), a.stage, DealLastActivityAgeDays(d), a.min, email)
    THEN st
    ELSE CountIfSent(SendAndRecord([st EXCEPT !.sent = FALSE], i, d, email, a, env), a)

HttpError == [t |-> "error"]

\* Lines 83-88: get_person_email; lookup is what the platform answers to
\* GET /persons/{id}, asked only for a truthy person_id
GetPersonEmail(person_id, lookup) ==
    IF ~Truthy(person_id) THEN JNull ELSE PersonEmail(lookup)

\* Lines 163-186: the two follow-ups, Kunde kontaktet before Tilbud sendt
Followups(st, i, d, email, kk, ts, env) ==
    Followup(Followup(st, i, d, email, KKAction(kk), env), i, d, email, TSAction(ts), env)

\* Lines 158-186: the loop body for deal number i
DealBody(st, i, d, kk, ts, lookup, env) ==
    IF PersonIdOf(d).raises THEN [st EXCEPT !.raised = Raise("person_id", i, "-")]
    ELSE IF ~Truthy(PersonIdOf(d).value)
    THEN Followups(st, i, d, JNull, kk, ts, env)
    ELSE IF lookup = HttpError
    THEN [st EXCEPT !.calls = Append(@, Call("GET /persons", i, "-", PersonIdOf(d).value,
                                             lookup)),
                    !.raised = Raise("lookup", i, "-")]
    ELSE Followups([st EXCEPT !.calls = Append(@, Call("GET /persons", i, "-",
                                                       PersonIdOf(d).value, lookup))],
                   i, d, GetPersonEmail(PersonIdOf(d).value, lookup), kk, ts, env)

-----------------------------------------------------------------------------
(* POST /daily-sweep: the steps of the handler *)

\* Lines 142-145: the catalog is fetched and the two stage ids resolved
FetchStages ==
    /\ sw_pc = "start"
    /\ stage_kunde_kontaktet' = StageId(stagesData, "Kunde kontaktet")
    /\ stage_tilbud_sendt' = StageId(stagesData, "Tilbud sendt")
    /\ sw_pc' = "listing"
    /\ UNCHANGED <<wh_vars, stagesData, listing, deals, start, fetches, idx, processed,
                   raised, sw_result, calls>>

\* Line 142: pd_get("/stages") raises (raise_for_status, timeout)
FetchStagesFails ==
    /\ sw_pc = "start"
    /\ raised' = Raise("stages", 0, "-")
    /\ sw_pc' = "raised"
    /\ sw_result' = [status |-> "error", processed |-> processed]
    /\ UNCHANGED <<wh_vars, stagesData, listing, stage_kunde_kontaktet, stage_tilbud_sendt,
                   deals, start, fetches, idx, processed, calls>>

\* Lines 149-154: one iteration of the listing loop
FetchPage ==
    /\ sw_pc = "listing"
    /\ LET chunk == ServePage(listing, start, Limit) IN
        /\ fetches' = Append(fetches, start)
        /\ deals' = deals \o chunk
        /\ IF PageIsShort(chunk)
           THEN sw_pc' = "deals" /\ start' = start
           ELSE sw_pc' = "listing" /\ start' = start + StartStep
    /\ UNCHANGED <<wh_vars, stagesData, listing, stage_kunde_kontaktet, stage_tilbud_sendt,
                   idx, processed, raised, sw_result, calls>>

\* Line 150: pd_get("/deals", ...) raises
FetchPageFails ==
    /\ sw_pc = "listing"
    /\ fetches' = Append(fetches, start)
    /\ raised' = Raise("list", 0, "-")
    /\ sw_pc' = "raised"
    /\ sw_result' = [status |-> "error", processed |-> processed]
    /\ UNCHANGED <<wh_vars, stagesData, listing, stage_kunde_kontaktet, stage_tilbud_sendt,
                   deals, start, idx, processed, calls>>

\* What GET /persons/{id} can answer
PersonResponses ==
    { JObj([data |-> JNull]),
      JObj([data |-> JObj([email |-> JArr(<<JObj([value |-> JStr("")])>>)])]),
      JObj([data |-> JObj([email |-> JArr(<<JObj([value |-> JStr("a@x.no")])>>)])]) }

LookupOutcomes == {HttpError} \cup PersonResponses

\* What the platform answers during the body of deal d: to the lookup, when
\* the body asks one, and to the POSTs that can only follow a resolved email
Answers(d) ==
    IF ~PersonIdOf(d).raises /\ Truthy(PersonIdOf(d).value)
    THEN [lookup : LookupOutcomes, noteOk : BOOLEAN, actOk : BOOLEAN]
    ELSE {[lookup |-> HttpError, noteOk |-> TRUE, actOk |-> TRUE]}

\* Lines 157-186: the loop body for the next deal; an exception of the body
\* leaves daily_sweep
ProcessDeal ==
    /\ sw_pc = "deals"
    /\ idx < Len(deals)
    /\ \E ans \in Answers(deals[idx + 1]) :
          \E r \in { DealBody([calls |-> calls, processed |-> processed,
                                raised |-> NoRaise, sent |-> FALSE],
                               idx + 1, deals[idx + 1], stage_kunde_kontaktet,
                               stage_tilbud_sendt, ans.lookup,
                               [noteOk |-> ans.noteOk, actOk |-> ans.actOk]) } :
              /\ calls' = r.calls
              /\ processed' = r.processed
              /\ raised' = r.raised
              /\ IF r.raised = NoRaise
                 THEN sw_pc' = "deals" /\ sw_result' = sw_result
                 ELSE sw_pc' = "raised"
                      /\ sw_result' = [status |-> "error", processed |-> r.processed]
    /\ idx' = idx + 1
    /\ UNCHANGED <<wh_vars, stagesData, listing, stage_kunde_kontaktet, stage_tilbud_sendt,
                   deals, start, fetches>>

\* Line 188
SweepReturn ==
    /\ sw_pc = "deals"
    /\ idx = Len(deals)
    /\ sw_pc' = "done"
    /\ sw_result' = [status |-> "ok", processed |-> processed]
    /\ UNCHANGED <<wh_vars, stagesData, listing, stage_kunde_kontaktet, stage_tilbud_sendt,
                   deals, start, fetches, idx, processed, raised, calls>>

-----------------------------------------------------------------------------
(* The platform states the sweep runs against *)

StageOther == JObj([name |-> JStr("Ny lead"), id |-> JInt(3)])
StageKK == JObj([name |-> JStr("Kunde kontaktet"), id |-> JInt(1)])
StageTS == JObj([name |-> JStr("Tilbud sendt"), id |-> JInt(2)])

Catalogs == {<<StageOther>>, <<StageOther, StageKK>>, <<StageOther, StageTS>>,
             <<StageOther, StageKK, StageTS>>}

\* The last activity dates around the two thresholds: 2, 3 and 7 days
\* before Today for Kunde kontaktet, 3, 6 and 7 days for Tilbud sendt
PersonRef == JObj([value |-> JInt(7)])
KKDates == {Absent, JDate(2026, 11, 4), JDate(2026, 11, 3), JDate(2026, 10, 30)}
TSDates == {Absent, JDate(2026, 11, 3), JDate(2026, 10, 31), JDate(2026, 10, 30)}
PersonValues == {Absent, JNull, JInt(7)}

\* Deals with an embedded person reference at either stage with a date around
\* its threshold, or with no stage and no date; deals at the first stage whose
\* person field is missing, null or a plain identifier
DealShapes ==
    { Field("stage_id", JInt(1)) @@ Field("last_activity_date", lad)
          @@ Field("person_id", PersonRef) : lad \in KKDates }
    \cup
    { Field("stage_id", JInt(2)) @@ Field("last_activity_date", lad)
          @@ Field("person_id", PersonRef) : lad \in TSDates }
    \cup
    { Field("person_id", PersonRef) }
    \cup
    { Field("stage_id", JInt(1)) @@ Field("person_id", pv) : pv \in PersonValues }

MaxDeals == 2

\* The listings of at most MaxDeals deals, each deal's id its position
Listings ==
    UNION { { [i \in 1..n |-> JObj(("id" :> JInt(i)) @@ f[i])] : f \in [1..n -> DealShapes] }
            : n \in 0..MaxDeals }

\* Long listings of deals that hold nothing but their id
MaxPages == 2
PageRemainders == {0, 1, 137, 499}
LongListings ==
    { [i \in 1..(k * Limit + r) |-> JObj([id |-> JInt(i)])] : k \in 0..MaxPages, r \in PageRemainders }

-----------------------------------------------------------------------------
(* Specifications *)

NoCounts == [kk_followups |-> 0, ts_followups |-> 0]

WebhookIdle ==
    /\ body = [valid |-> FALSE, json |-> JNull]
    /\ wh_pc = "off"
    /\ response = NoResponse
    /\ background = <<>>

SweepFresh ==
    /\ sw_pc = "start"
    /\ stage_kunde_kontaktet = JNull
    /\ stage_tilbud_sendt = JNull
    /\ deals = <<>>
    /\ start = 0
    /\ fetches = <<>>
    /\ idx = 0
    /\ processed = NoCounts
    /\ raised = NoRaise
    /\ sw_result = [status |-> "none", processed |-> NoCounts]

\* One webhook request, the sweep not invoked
InitWebhook ==
    /\ body \in Bodies
    /\ wh_pc = "idle"
    /\ response = NoResponse
    /\ background = <<>>
    /\ stagesData = <<>>
    /\ listing = <<>>
    /\ sw_pc = "off"
    /\ stage_kunde_kontaktet = JNull
    /\ stage_tilbud_sendt = JNull
    /\ deals = <<>>
    /\ start = 0
    /\ fetches = <<>>
    /\ idx = 0
    /\ processed = NoCounts
    /\ raised = NoRaise
    /\ sw_result = [status |-> "none", processed |-> NoCounts]
    /\ calls = <<>>

\* One sweep over a short listing of deals of every shape
InitSweep ==
    /\ WebhookIdle
    /\ stagesData \in Catalogs
    /\ listing \in Listings
    /\ SweepFresh
    /\ calls = <<>>

\* One sweep over a listing of several pages
InitPaging ==
    /\ WebhookIdle
    /\ stagesData = <<StageOther, StageKK, StageTS>>
    /\ listing \in LongListings
    /\ SweepFresh
    /\ calls = <<>>

NextWebhook == WebhookInvalidJson \/ WebhookRaises \/ WebhookAck \/ WriteNoteBg

NextSweep ==
    FetchStages \/ FetchStagesFails \/ FetchPage \/ FetchPageFails \/ ProcessDeal \/ SweepReturn

SpecWebhook == InitWebhook /\ [][NextWebhook]_vars

SpecSweep == InitSweep /\ [][NextSweep]_vars

SpecPaging == InitPaging /\ [][NextSweep]_vars

-----------------------------------------------------------------------------
(* Properties of POST /webhook, under SpecWebhook *)

\* The deal id of the notification: current.id, else meta.id
NotifiedDealId == WebhookFields(body.json).deal_id

\* The annotation the notification calls for
ExpectedWebhookNote ==
    JObj([content |-> JStr(WebhookMsg(WebhookFields(body.json).stage_prev,
                                      WebhookFields(body.json).stage_cur)),
          deal_id |-> NotifiedDealId])

\* C1: once the deferred task of a notification that parsed and carries a
\* deal id has run, exactly one POST /notes was submitted, its text the
\* "Webhook: stage <previous> -> <current> @ <timestamp>" message and its
\* deal_id the extracted deal id.
C1_WebhookNoteSubmitted ==
    (body.valid /\ wh_pc = "done" /\ Truthy(NotifiedDealId))
        => /\ Len(calls) = 1
           /\ calls[1].op = "POST /notes"
           /\ calls[1].arg = ExpectedWebhookNote

\* C3: once the body has parsed as JSON the handler returns the positive
\* acknowledgment and never raises, whatever the payload's shape.
C3_AlwaysAcknowledged ==
    (body.valid /\ wh_pc # "idle") => response = AckOk

\* C5: a notification with no extractable deal id yields the positive
\* acknowledgment and no write call, also after the deferred task has run.
C5_NoIdAckNoWrite ==
    (body.valid /\ wh_pc # "idle" /\ ~Truthy(NotifiedDealId))
        => (response = AckOk /\ calls = <<>>)

-----------------------------------------------------------------------------
(* Properties of POST /daily-sweep, under SpecSweep and SpecPaging *)

ActionKeys == {"kk", "ts"}

\* The follow-up of a key, with the stage id the sweep resolved for it
ActionOf(key) ==
    IF key = "kk" THEN KKAction(stage_kunde_kontaktet) ELSE TSAction(stage_tilbud_sendt)

StageNameOf(key) == IF key = "kk" THEN "Kunde kontaktet" ELSE "Tilbud sendt"

\* The positions in the call log of the calls of one kind for deal i, follow-up key
CallsFor(op, i, key) ==
    {k \in 1..Len(calls) : calls[k].op = op /\ calls[k].deal = i /\ calls[k].action = key}

\* The email the lookup of deal i resolved; None without an answered lookup
ResolvedEmail(i) ==
    LET ks == {k \in CallsFor("GET /persons", i, "-") : calls[k].res # HttpError}
    IN  IF ks = {} THEN JNull ELSE PersonEmail(calls[CHOOSE k \in ks : TRUE].res)

\* Whole days from the deal's last activity date to today, 999 without one
StalenessDays(d) ==
    IF "last_activity_date" \in DOMAIN d.o
    THEN ToOrdinal(Today) - ToOrdinal(d.o.last_activity_date)
    ELSE 999

\* The loop body of deal i got as far as the condition of follow-up key
Reached(i, key) ==
    /\ i <= idx
    /\ raised.deal = i =>
          /\ raised.at \in {"note", "activity"}
          /\ key = "ts" => raised.action = "ts"

SweepEnded == sw_pc \in {"done", "raised"}

NotePosted(i, key) ==
    Cardinality({k \in CallsFor("POST /notes", i, key) :
                    calls[k].arg = JObj([content |-> JStr(ActionOf(key).note),
                                         deal_id |-> JInt(i)])}) = 1

ReminderScheduled(i, key) ==
    Cardinality({k \in CallsFor("POST /activities", i, key) :
                    /\ calls[k].arg.o.type = JStr("call")
                    /\ calls[k].arg.o.deal_id = JInt(i)
                    /\ calls[k].arg.o.due_date = AddDays(Today, ActionOf(key).due)}) = 1

\* C2: when the sweep has ended, every deal at a follow-up's resolved stage
\* for which the email was sent with success has one annotation with the
\* follow-up's text, one "call" reminder due in 3 (4) days, is counted, and
\* the sweep has finished with status "ok".
C2_FollowupRecorded ==
    SweepEnded =>
        \A i \in 1..Len(deals), key \in ActionKeys :
            (/\ CallsFor("EMAIL", i, key) # {}
             /\ ActionOf(key).stage # JNull
             /\ Get(deals[i], "stage_id") = ActionOf(key).stage)
                => /\ NotePosted(i, key)
                   /\ ReminderScheduled(i, key)
                   /\ processed[ActionOf(key).counter] >= 1
                   /\ sw_result.status = "ok"

\* C4: a failure raised while one deal is processed does not abort the
\* sweep: the deals after it are evaluated and the sweep returns "ok".
C4_DealFailureIsolated ==
    (SweepEnded /\ raised.deal >= 1 /\ raised.deal < Len(deals))
        => (idx = Len(deals) /\ sw_result.status = "ok")

\* C6: for every deal and follow-up, without a resolved email or a successful
\* send there is no annotation, no reminder and no count; every annotation
\* or reminder write comes after the email of the same deal and follow-up.
C6_EmailGatesWrites ==
    \A key \in ActionKeys :
        /\ \A i \in 1..Len(deals) :
              (~Truthy(ResolvedEmail(i)) \/ CallsFor("EMAIL", i, key) = {})
                  => /\ CallsFor("POST /notes", i, key) = {}
                     /\ CallsFor("POST /activities", i, key) = {}
        /\ \A k \in 1..Len(calls) :
              (calls[k].action = key /\ calls[k].op \in {"POST /notes", "POST /activities"})
                  => \E j \in CallsFor("EMAIL", calls[k].deal, key) : j < k
        /\ processed[ActionOf(key).counter]
              <= Cardinality({i \in 1..Len(deals) :
                                 Truthy(ResolvedEmail(i)) /\ CallsFor("EMAIL", i, key) # {}})

\* A deal at the Kunde kontaktet stage, stale, with no email resolved, has
\* been passed with nothing written and nothing counted.
C6_Witness ==
    /\ sw_pc = "done"
    /\ stage_kunde_kontaktet # JNull
    /\ \E i \in 1..idx :
          /\ Get(deals[i], "stage_id") = stage_kunde_kontaktet
          /\ StalenessDays(deals[i]) >= 3
          /\ ~Truthy(ResolvedEmail(i))
          /\ CallsFor("POST /notes", i, "kk") = {}
    /\ processed.kk_followups = 0

\* The listing is served as k full pages and one short page
FullPages == Len(listing) \div 500

\* C7: the listing loop issues the fetches at offsets 0, 500, ..., never more
\* than k + 1 of them, and leaves the loop only after exactly k + 1 with the
\* whole listing collected.
C7_PagingExact ==
    /\ \A j \in 1..Len(fetches) : fetches[j] = 500 * (j - 1)
    /\ Len(fetches) <= FullPages + 1
    /\ (sw_pc \in {"deals", "done"} \/ (sw_pc = "raised" /\ raised.deal >= 1))
          => (Len(fetches) = FullPages + 1 /\ deals = listing)

\* Pages of 500, 500 and 137 deals: three fetches, 1137 deals collected
C7_Witness ==
    /\ sw_pc = "deals"
    /\ Len(listing) = 1137
    /\ fetches = <<0, 500, 1000>>
    /\ Len(deals) = 1137

C9_AbsentStageNeverFires ==
    \A key \in ActionKeys :
        (sw_pc \notin {"off", "start"} /\ StageId(stagesData, StageNameOf(key)) = JNull)
            => /\ \A k \in 1..Len(calls) : calls[k].action # key
               /\ processed[ActionOf(key).counter] = 0
               /\ raised.action # key

\* C10: every deal whose body was entered got one person lookup keyed by its
\* person identifier, plain or embedded; a deal with a missing or null
\* person field got none and its body did not fail on it.
C10_PersonLookup ==
    \A i \in 1..idx :
        LET pf == GetD(deals[i], "person_id", JNull)
            pid == IF IsObj(pf) THEN Get(pf, "value") ELSE pf
        IN  IF pf = JNull
            THEN /\ CallsFor("GET /persons", i, "-") = {}
                 /\ ~(raised.deal = i /\ raised.at = "person_id")
            ELSE /\ Cardinality(CallsFor("GET /persons", i, "-")) = 1
                 /\ \A k \in CallsFor("GET /persons", i, "-") : calls[k].arg = pid

=============================================================================
